---- MODULE Spec2Model ----
(***************************************************************************)
(* FlightSimulator (src/src/main.rs): the Plane rigid body, its marker     *)
(* points, the per-triangle aerodynamic force, the Euler integrator with   *)
(* its floor / ceiling / wrap / clamp / damping policies, and the chase    *)
(* camera.                                                                 *)
(*                                                                         *)
(* Every scalar is an IEEE 754 binary32 number and every operation on it   *)
(* is rounded as the hardware rounds it; the glam vector and matrix        *)
(* operations are composed of scalar operations in glam's order.           *)
(***************************************************************************)
EXTENDS Integers, Sequences, FiniteSets

(* ------------------------------------------------------------------ f32 *)
\* An f32 is the record [c, m, e]: c = "num" for the finite value m * 2^e
\* (m the signed 24-bit significand, 2^23 <= |m| < 2^24 unless e = -149, zero
\* being m = 0, e = -149), c = "inf" for the infinity of sign m, c = "nan".
\* Every operation returns the IEEE 754 result, rounded to nearest, ties to
\* even.  The sign of zero is not kept.

MinExp == -149
MaxExp == 104

F(m, e) == [c |-> "num", m |-> m, e |-> e]
Zero == F(0, MinExp)
NaN == [c |-> "nan", m |-> 0, e |-> 0]
Inf(s) == [c |-> "inf", m |-> s, e |-> 0]

\* The element of a set of one element.  The({ e(v) : v \in {value} }) is e(v)
\* with v standing for value, computed, once, before e is: a `let v = value;`.
The(S) == CHOOSE element \in S : TRUE

Abs(a) == IF a < 0 THEN -a ELSE a
Max2(a, b) == IF a >= b THEN a ELSE b
Sign(x) == IF x.m < 0 THEN -1 ELSE 1
IsZero(x) == x.c = "num" /\ x.m = 0

RECURSIVE BitLen(_)
\* The number of binary digits of n >= 0.
BitLen(n) == IF n = 0 THEN 0 ELSE 1 + BitLen(n \div 2)

Clip(s, m, e) == IF e > MaxExp THEN Inf(s) ELSE F(s * m, e)

\* q, or q + 1 when the digits r dropped after it (and a fraction beyond them,
\* non-zero iff sticky) are more than half, or are half and q is odd.
RoundUp(q, r, half, sticky) ==
    IF r > half \/ (r = half /\ (sticky \/ q % 2 = 1)) THEN q + 1 ELSE q
\* s * q1 * 2^e for q1 <= 2^24.
RoundClip(s, q1, e) ==
    IF q1 = 16777216 THEN Clip(s, 8388608, e + 1)
    ELSE IF q1 = 0 THEN Zero
    ELSE Clip(s, q1, e)
\* Round, dropping the last k digits of n < 2^31 (k <= 0: appending -k zeros,
\* which brings n to 24 digits as far as MinExp allows; k = 31: all of n is
\* dropped, and is more than half iff it is more than 2^30; k > 31: less than half).
RoundAt(s, n, sticky, e, k) ==
    IF k <= 0 THEN Clip(s, n * 2^(-k), e + k)
    ELSE IF k > 31 THEN Zero
    ELSE IF k = 31 THEN RoundClip(s, RoundUp(0, n, 1073741824, sticky), e + k)
    ELSE RoundClip(s, RoundUp(n \div 2^k, n % 2^k, 2^(k - 1), sticky), e + k)
\* The f32 nearest to s * (n + a fraction, non-zero iff sticky) * 2^e, n < 2^31.
Round(s, n, sticky, e) ==
    IF n = 0 THEN Zero ELSE RoundAt(s, n, sticky, e, Max2(BitLen(n) - 24, MinExp - e))

\* The significand of a finite non-zero f32 brought to 24 digits, and the
\* exponent that goes with it.
NormM(x) ==
    IF Abs(x.m) >= 8388608 THEN Abs(x.m) ELSE Abs(x.m) * 2^(24 - BitLen(Abs(x.m)))
NormE(x) ==
    IF Abs(x.m) >= 8388608 THEN x.e ELSE x.e - (24 - BitLen(Abs(x.m)))

FNeg(x) == IF x.c = "nan" THEN NaN ELSE [x EXCEPT !.m = -x.m]
FAbs(x) == IF x.c = "nan" THEN NaN ELSE [x EXCEPT !.m = Abs(x.m)]

\* The sum of the aligned magnitudes nx of x and ny of y; sticky says that
\* digits of y were dropped in the alignment.
AddSum(x, y, sticky, nx, ny) ==
    IF Sign(x) = Sign(y) THEN nx + ny
    ELSE IF sticky THEN nx - ny - 1 ELSE nx - ny
AddRound(x, sticky, sum) ==
    Round(IF sum >= 0 THEN Sign(x) ELSE -Sign(x), Abs(sum), sticky, x.e - 6)
AddSticky(x, y, d, sticky) ==
    AddRound(x, sticky,
             AddSum(x, y, sticky, Abs(x.m) * 64,
                    IF d <= 6 THEN Abs(y.m) * 2^(6 - d) ELSE Abs(y.m) \div 2^(d - 6)))
\* x + y for finite non-zero x, y with x.e >= y.e.
AddOrdered(x, y) ==
    IF x.e - y.e > 26 THEN x
    ELSE AddSticky(x, y, x.e - y.e, x.e - y.e > 6 /\ Abs(y.m) % 2^(x.e - y.e - 6) # 0)

FAdd(x, y) ==
    IF x.c = "nan" \/ y.c = "nan" THEN NaN
    ELSE IF x.c = "inf" THEN (IF y.c = "inf" /\ y.m # x.m THEN NaN ELSE x)
    ELSE IF y.c = "inf" THEN y
    ELSE IF x.m = 0 THEN y
    ELSE IF y.m = 0 THEN x
    ELSE AddOrdered(IF x.e >= y.e THEN x ELSE y, IF x.e >= y.e THEN y ELSE x)

FSub(x, y) == FAdd(x, FNeg(y))

\* x * y as the pair [h, l] with x * y = h * base^2 + l, for x, y < base^2.
MulJoin(x, y, base, mid, low) ==
    [h |-> (x \div base) * (y \div base) + mid \div base + low \div (base * base),
     l |-> low % (base * base)]
MulParts(x, y, base, mid) ==
    MulJoin(x, y, base, mid, (mid % base) * base + (x % base) * (y % base))
MulSplit(x, y, base) ==
    MulParts(x, y, base, (x \div base) * (y % base) + (x % base) * (y \div base))

MulRound(x, y, p) ==
    Round(Sign(x) * Sign(y), p.h * 64 + p.l \div 262144, p.l % 262144 # 0,
          NormE(x) + NormE(y) + 18)
FMul(x, y) ==
    IF x.c = "nan" \/ y.c = "nan" THEN NaN
    ELSE IF x.c = "inf" \/ y.c = "inf"
         THEN (IF IsZero(x) \/ IsZero(y) THEN NaN ELSE Inf(Sign(x) * Sign(y)))
    ELSE IF x.m = 0 \/ y.m = 0 THEN Zero
    ELSE MulRound(x, y, MulSplit(NormM(x), NormM(y), 4096))

\* Seven more quotient digits of a division by b: d is [q, r], the quotient
\* so far and the remainder.
DivStep(d, b) == [q |-> d.q * 128 + (d.r * 128) \div b, r |-> (d.r * 128) % b]
DivRound(x, y, q0, d) ==
    Round(Sign(x) * Sign(y), q0 * 268435456 + d.q, d.r # 0, NormE(x) - NormE(y) - 28)
\* a / b of two 24-digit significands: the first digit q0, then four times
\* seven more digits.
DivFirst(x, y, a, b, q0) ==
    DivRound(x, y, q0,
             DivStep(DivStep(DivStep(DivStep([q |-> 0, r |-> a - q0 * b], b), b), b), b))
FDiv(x, y) ==
    IF x.c = "nan" \/ y.c = "nan" THEN NaN
    ELSE IF x.c = "inf" THEN (IF y.c = "inf" THEN NaN ELSE Inf(Sign(x) * Sign(y)))
    ELSE IF y.c = "inf" THEN Zero
    ELSE IF y.m = 0 THEN (IF x.m = 0 THEN NaN ELSE Inf(Sign(x)))
    ELSE IF x.m = 0 THEN Zero
    ELSE DivFirst(x, y, NormM(x), NormM(y), IF NormM(x) >= NormM(y) THEN 1 ELSE 0)

RECURSIVE SqrtDigits(_, _, _, _)
\* One digit of the root: r is the remainder with the next digit pair brought down.
SqrtNext(n, root, r, i) ==
    IF r >= root * 4 + 1 THEN SqrtDigits(n, root * 2 + 1, r - (root * 4 + 1), i - 1)
    ELSE SqrtDigits(n, root * 2, r, i - 1)
\* Digit-by-digit square root: root and rem after the digit pairs of n from
\* pair i down to pair 0, then -i more pairs of zeros (i counts down to last).
SqrtDigits(n, root, rem, i) ==
    IF i < -12 THEN [root |-> root, rem |-> rem]
    ELSE SqrtNext(n, root, rem * 4 + (IF i >= 0 THEN (n \div 4^i) % 4 ELSE 0), i)

SqrtRound(e, s, d) == Round(1, d.root, d.rem # 0, (e - s) \div 2 - 12)
SqrtScaled(x, e, s) == SqrtRound(e, s, SqrtDigits(NormM(x) * 2^s, 0, 0, 15))
FSqrt(x) ==
    IF x.c = "nan" THEN NaN
    ELSE IF x.m < 0 THEN NaN
    ELSE IF x.c = "inf" \/ x.m = 0 THEN x
    ELSE SqrtScaled(x, NormE(x), IF NormE(x) % 2 = 0 THEN 6 ELSE 7)

\* Comparisons: every comparison with NaN is false.
Ex(x) == IF x.c = "inf" THEN 1000 ELSE x.e
FLt(x, y) ==
    /\ x.c # "nan" /\ y.c # "nan"
    /\ IF x.m < 0
       THEN y.m >= 0 \/ Ex(x) > Ex(y) \/ (Ex(x) = Ex(y) /\ x.m < y.m)
       ELSE y.m >= 0 /\ (Ex(x) < Ex(y) \/ (Ex(x) = Ex(y) /\ x.m < y.m))
FLe(x, y) == x.c # "nan" /\ y.c # "nan" /\ (x = y \/ FLt(x, y))
FGt(x, y) == FLt(y, x)
FGe(x, y) == FLe(y, x)

\* An integer as f32 (`n as f32`), |n| < 2^31.
FromInt(n) == Round(IF n < 0 THEN -1 ELSE 1, Abs(n), FALSE, 0)
\* The f32 literal n / 1000 (|n| < 2^24): the f32 nearest to the decimal.
Dec(n) == FDiv(FromInt(n), FromInt(1000))

\* A usize (64 bits) is the record [hi, mid, lo] of the value
\* hi * 2^48 + mid * 2^24 + lo, with hi < 2^16, mid < 2^24 and lo < 2^24.
Usize(hi, mid, lo) == [hi |-> hi, mid |-> mid, lo |-> lo]
UsizeLt(a, b) ==
    \/ a.hi < b.hi
    \/ a.hi = b.hi /\ a.mid < b.mid
    \/ a.hi = b.hi /\ a.mid = b.mid /\ a.lo < b.lo

\* `x as usize`: truncated towards zero, NaN and negative numbers to 0,
\* infinity and numbers from 2^64 on to usize::MAX = 2^64 - 1.
AsUsize(x) ==
    IF x.c = "nan" \/ x.m <= 0 THEN Usize(0, 0, 0)
    ELSE IF x.c = "inf" \/ x.e > 40 THEN Usize(65535, 16777215, 16777215)
    ELSE IF x.e >= 24 THEN Usize(x.m \div 2^(48 - x.e), (x.m % 2^(48 - x.e)) * 2^(x.e - 24), 0)
    ELSE IF x.e >= 0 THEN Usize(0, x.m \div 2^(24 - x.e), (x.m % 2^(24 - x.e)) * 2^x.e)
    ELSE IF x.e < -30 THEN Usize(0, 0, 0)
    ELSE Usize(0, 0, x.m \div 2^(-x.e))

(* ------------------------------------------------------------ sin, cos *)
\* f32::sin and f32::cos are the C library's sinf and cosf: the angle is taken
\* to double precision, reduced by the multiple n of pi/2 nearest to it, and a
\* polynomial in the remainder r is rounded to f32 once.  The polynomials are
\* summed here with 56 binary places: a wide number is the pair [h, l] that
\* stands for (h * 2^28 + l) / 2^56.  Angles are below 120 in magnitude.

Limb == 268435456
W(h, l) == [h |-> h, l |-> l]
WOne == W(Limb, 0)

\* pi/2 = (HpiTop * 2^40 + HpiMid * 2^20 + HpiLow) / 2^52.
HpiTop == 6433
HpiMid == 1029444
HpiLow == 273688

\* a * b of wide numbers, from the four products of their halves.
WCarry(p, low) == W(p.h + low \div Limb, low % Limb)
WSum(p, q, s, t) == WCarry(p, p.l + q.h + s.h + (q.l + s.l + t.h) \div Limb)
WMul(a, b) ==
    WSum(MulSplit(a.h, b.h, 16384), MulSplit(a.h, b.l, 16384),
         MulSplit(a.l, b.h, 16384), MulSplit(a.l, b.l, 16384))
\* a - b (a >= b) of wide numbers.
WSub(a, b) == IF a.l >= b.l THEN W(a.h - b.h, a.l - b.l) ELSE W(a.h - b.h - 1, a.l - b.l + Limb)

\* sin(r) / r and cos(r) by the library's polynomials, from x2 = r * r.
SinPoly(x2) ==
    WSub(WOne, WMul(x2, WSub(W(44739211, 53169158),
               WMul(x2, WSub(W(2236652, 10772856),
               WMul(x2, W(52391, 94091879)))))))
CosPoly(x2) ==
    WSub(WOne, WMul(x2, WSub(W(134217727, 70355056),
               WMul(x2, WSub(W(11184799, 8603532),
               WMul(x2, WSub(W(372769, 262301910),
               WMul(x2, W(6547, 70264767)))))))))

\* A non-zero wide number times 2^shift, so that it has 56 digits.
WShift(a) == IF a.h > 0 THEN 28 - BitLen(a.h) ELSE 56 - BitLen(a.l)
WShifted(a, sh) ==
    IF a.h = 0 THEN W(a.l * 2^(sh - 28), 0)
    ELSE W(a.h * 2^sh + a.l \div 2^(28 - sh), (a.l % 2^(28 - sh)) * 2^sh)
WNormal(a) == WShifted(a, WShift(a))

\* The f32 nearest to s times the wide number a / 2^shift.
WRound(s, a, shift) == Round(s, a.h * 4 + a.l \div 67108864, a.l % 67108864 # 0, -30 - shift)

\* With r the wide number |remainder|: sin(|remainder|) and cos(remainder).
SinOf(r) == WRound(1, WMul(WNormal(r), SinPoly(WMul(r, r))), WShift(r))
CosOf(r) == WRound(1, CosPoly(WMul(r, r)), 0)

\* The reduction of a finite x, 0.75 <= |x| < 120: the n nearest to
\* |x| / (pi/2) (halves up), the wide number | |x| - n * pi/2 | and the sign of
\* |x| - n * pi/2.
ReducedParts(n, neg, h, l) ==
    [n |-> n, r |-> W(h * 16 + l \div 16777216, (l % 16777216) * 16),
     s |-> IF neg THEN -1 ELSE 1]
\* d and Tl are the two parts of |x| - n * pi/2, the second taken off the first.
ReducedDiff(n, Tl, d) ==
    ReducedParts(n, d < 0 \/ (d = 0 /\ Tl > 0),
                 IF d < 0 \/ (d = 0 /\ Tl > 0) THEN -d ELSE IF Tl > 0 THEN d - 1 ELSE d,
                 IF d < 0 \/ (d = 0 /\ Tl > 0) \/ Tl = 0 THEN Tl ELSE Limb - Tl)
\* t1 is the middle partial product of n * pi/2 with the carry of the low one.
ReducedMid(Y, n, t1) ==
    ReducedDiff(n, (t1 % 256) * 1048576 + ((n * HpiLow) % 1048576),
                Y - ((n * HpiTop + t1 \div 1048576) * 4096 + (t1 % 1048576) \div 256))
ReducedN(Y, n) == ReducedMid(Y, n, n * HpiMid + (n * HpiLow) \div 1048576)
\* v is |x| * 2/pi as a wide number.
ReducedBy(Y, v) == ReducedN(Y, (v.h * Limb + v.l + 8388608) \div 16777216)
ReducedFrom(Y) ==
    ReducedBy(Y, WMul(W(Y \div Limb, Y % Limb), W(170891318, 240010264)))
Reduced(x) == ReducedFrom(Abs(x.m) * 2^(x.e + 24))

\* The wide number |x| of a finite x, |x| < 1.
Wide(x) ==
    IF x.e >= -28 THEN W(Abs(x.m) * 2^(x.e + 28), 0)
    ELSE W(Abs(x.m) \div 2^(-28 - x.e), (Abs(x.m) % 2^(-28 - x.e)) * 2^(56 + x.e))

\* [sin, cos] of an angle whose reduction has the quadrant q, the sine s and
\* the cosine c.
Quadrant(q, s, c) ==
    [sin |-> IF q = 0 THEN s ELSE IF q = 1 THEN c ELSE IF q = 2 THEN FNeg(s) ELSE FNeg(c),
     cos |-> IF q = 0 THEN c ELSE IF q = 1 THEN FNeg(s) ELSE IF q = 2 THEN FNeg(c) ELSE s]

\* [sin, cos] of x: below 2^-12 they are x and 1; below 0.75 the polynomials
\* are taken of x itself (n = 0), from there on of the reduced angle.
SinCosSigned(x, sc) ==
    [sin |-> IF x.m < 0 THEN FNeg(sc.sin) ELSE sc.sin, cos |-> sc.cos]
SinCosOf(x, red) ==
    SinCosSigned(x, Quadrant(red.n % 4,
                             IF red.s < 0 THEN FNeg(SinOf(red.r)) ELSE SinOf(red.r),
                             CosOf(red.r)))
SinCos(x) ==
    IF x.c # "num" THEN [sin |-> NaN, cos |-> NaN]
    ELSE IF FLt(FAbs(x), F(8388608, -35)) THEN [sin |-> x, cos |-> F(8388608, -23)]
    ELSE SinCosOf(x, IF FLt(FAbs(x), F(12582912, -24))
                     THEN [n |-> 0, r |-> Wide(x), s |-> 1]
                     ELSE Reduced(x))

\* The bit pattern of |x| as an integer: it grows with |x|.
Bits(x) ==
    IF x.c = "nan" THEN 2143289344
    ELSE IF x.c = "inf" THEN 2139095040
    ELSE IF Abs(x.m) < 8388608 THEN Abs(x.m)
    ELSE (x.e + 150) * 8388608 + (Abs(x.m) - 8388608)
\* An integer that grows with x (x not NaN).
Ord(x) == Sign(x) * Bits(x)

FOne == F(8388608, -23)
FHalf == Dec(500)

(* ----------------------------------------------------------------- Vec3 *)

V(x, y, z) == [x |-> x, y |-> y, z |-> z]
\* The vector of three decimal literals, given in thousandths.
Vec(x, y, z) == V(Dec(x), Dec(y), Dec(z))
ZERO == V(Zero, Zero, Zero)
IsNaNV(a) == a.x.c = "nan" \/ a.y.c = "nan" \/ a.z.c = "nan"
IsFiniteV(a) == a.x.c = "num" /\ a.y.c = "num" /\ a.z.c = "num"

Add(a, b) == V(FAdd(a.x, b.x), FAdd(a.y, b.y), FAdd(a.z, b.z))
Sub(a, b) == V(FSub(a.x, b.x), FSub(a.y, b.y), FSub(a.z, b.z))
Neg(a) == V(FNeg(a.x), FNeg(a.y), FNeg(a.z))
\* vector * scalar and vector / scalar.
Scale(a, s) == V(FMul(a.x, s), FMul(a.y, s), FMul(a.z, s))
DivS(a, s) == V(FDiv(a.x, s), FDiv(a.y, s), FDiv(a.z, s))
\* componentwise product.
MulV(a, b) == V(FMul(a.x, b.x), FMul(a.y, b.y), FMul(a.z, b.z))

Dot(a, b) == FAdd(FAdd(FMul(a.x, b.x), FMul(a.y, b.y)), FMul(a.z, b.z))
Cross(a, b) ==
    V(FSub(FMul(a.y, b.z), FMul(b.y, a.z)),
      FSub(FMul(a.z, b.x), FMul(b.z, a.x)),
      FSub(FMul(a.x, b.y), FMul(b.x, a.y)))
LengthSquared(a) == Dot(a, a)
Length(a) == FSqrt(Dot(a, a))

\* glam's normalize: self * (1 / length); a zero vector gives 0 * inf = NaN.
Normalize(a) == Scale(a, FDiv(FOne, Length(a)))

\* glam's clamp_length_max: length_sq > max * max ? max * (self / sqrt(length_sq)) : self.
\* A NaN length_sq compares false, so a NaN vector is returned as it is.
ClampTo(a, max, length_sq) ==
    IF FGt(length_sq, FMul(max, max)) THEN Scale(DivS(a, FSqrt(length_sq)), max) ELSE a
ClampLengthMax(a, max) == ClampTo(a, max, LengthSquared(a))

(* ------------------------------------------------------------ rotation *)

\* The three columns of the rotation matrix, from axis * sin, axis * axis,
\* omc = 1 - cos and the three products x * y * omc, x * z * omc, y * z * omc.
Mat3Columns(cos, asin, sq, omc, xyomc, xzomc, yzomc) ==
    [x_axis |-> V(FAdd(FMul(sq.x, omc), cos), FAdd(xyomc, asin.z), FSub(xzomc, asin.y)),
     y_axis |-> V(FSub(xyomc, asin.z), FAdd(FMul(sq.y, omc), cos), FAdd(yzomc, asin.x)),
     z_axis |-> V(FAdd(xzomc, asin.y), FSub(yzomc, asin.x), FAdd(FMul(sq.z, omc), cos))]

\* glam::Mat3::from_axis_angle(axis, angle).
Mat3With(axis, sc, omc) ==
    Mat3Columns(sc.cos, Scale(axis, sc.sin), MulV(axis, axis), omc,
                FMul(FMul(axis.x, axis.y), omc), FMul(FMul(axis.x, axis.z), omc),
                FMul(FMul(axis.y, axis.z), omc))
Mat3FromAxisAngle(axis, angle) ==
    The({ Mat3With(axis, sc, FSub(FOne, sc.cos)) : sc \in { SinCos(angle) } })

\* Mat3::mul_vec3: (x_axis * v.x + y_axis * v.y) + z_axis * v.z.
MulVec3(mat, v) ==
    Add(Add(Scale(mat.x_axis, v.x), Scale(mat.y_axis, v.y)), Scale(mat.z_axis, v.z))

(* ---------------------------------------------------------------- Plane *)
\* A plane p is the record of struct Plane's fields; mesh.vertices is the
\* sequence of vertex positions, mesh.indices the flat u16 index list.
\* p.trace lists the translate_by / rotate_by_axis_angle calls made since the
\* running operation began, in call order.

RECURSIVE SumTo(_, _)
\* vertices[1] + ... + vertices[n], summed from the left.
SumTo(vertices, n) ==
    IF n = 1 THEN vertices[1] ELSE Add(SumTo(vertices, n - 1), vertices[n])

\* The vertex mean.
_get_center_from_vertices(vertices) ==
    DivS(SumTo(vertices, Len(vertices)), FromInt(Len(vertices)))

\* Iterator::max_by returns the last of several equally large elements;
\* keys[i] is the place of vertices[i] in the order.
LastMax(vertices, keys) ==
    vertices[CHOOSE i \in 1..Len(vertices) :
                /\ \A j \in 1..Len(vertices) : keys[j] <= keys[i]
                /\ \A j \in (i + 1)..Len(vertices) : keys[j] < keys[i]]
\* Iterator::max_by_key, likewise, keys[i] the usize key of vertices[i].
LastMaxByKey(vertices, keys) ==
    vertices[CHOOSE i \in 1..Len(vertices) :
                /\ \A j \in 1..Len(vertices) : ~UsizeLt(keys[i], keys[j])
                /\ \A j \in (i + 1)..Len(vertices) : UsizeLt(keys[j], keys[i])]

\* The vertex of largest x (the comparison panics on NaN: x is finite here).
_get_head_from_vertices(vertices) ==
    LastMax(vertices, [i \in 1..Len(vertices) |-> Ord(vertices[i].x)])

\* The vertex of largest (z * 100.) as usize: the product is rounded to f32,
\* the cast truncates it and maps a negative number to 0.
_get_right_wing_tip_from_vertices(vertices) ==
    LastMaxByKey(vertices, [i \in 1..Len(vertices) |-> AsUsize(FMul(vertices[i].z, Dec(100000)))])

forward(p) == Normalize(Sub(p.head, p.center))
backward(p) == Neg(forward(p))
right(p) == Normalize(Sub(p.right_wing_tip, p.center))
up(p) == Normalize(Cross(Sub(p.right_wing_tip, p.center), Sub(p.head, p.center)))

\* The camera two up and two behind a point, looking three ahead of it.
CameraAt(point, u, f) ==
    [position |-> Add(Add(point, Scale(u, Dec(2000))), Scale(f, Dec(-2000))),
     target   |-> Add(point, Scale(f, Dec(3000))),
     up       |-> u]
_get_camera_vectors(p) == CameraAt(p.center, up(p), forward(p))

\* Plane::new: the camera is set from up() and forward() alone.
NewFrom(plane, u, f) ==
    [head             |-> plane.head,
     center           |-> plane.center,
     right_wing_tip   |-> plane.right_wing_tip,
     velocity         |-> plane.velocity,
     angular_velocity |-> plane.angular_velocity,
     acceleration     |-> plane.acceleration,
     vertices         |-> plane.vertices,
     indices          |-> plane.indices,
     trace            |-> plane.trace,
     camera           |-> [position |-> Add(Scale(u, Dec(2000)), Scale(f, Dec(-2000))),
                           target   |-> Scale(f, Dec(3000)),
                           up       |-> u]]
New(mesh) ==
    The({ NewFrom(plane, up(plane), forward(plane)) :
              plane \in { [head             |-> _get_head_from_vertices(mesh.vertices),
                           center           |-> _get_center_from_vertices(mesh.vertices),
                           right_wing_tip   |-> _get_right_wing_tip_from_vertices(mesh.vertices),
                           velocity         |-> ZERO,
                           angular_velocity |-> ZERO,
                           acceleration     |-> ZERO,
                           vertices         |-> mesh.vertices,
                           indices          |-> mesh.indices,
                           trace            |-> << >>] } })

WithCamera(p) == [p EXCEPT !.camera = _get_camera_vectors(p)]

RECURSIVE TranslatedTo(_, _, _)
\* The first n vertices after `vertex.position += move_vector`.
TranslatedTo(vertices, move_vector, n) ==
    IF n = 0 THEN << >>
    ELSE Append(TranslatedTo(vertices, move_vector, n - 1), Add(vertices[n], move_vector))

TranslatedWith(p, move_vector, moved) ==
    WithCamera([p EXCEPT
        !.vertices = moved,
        !.head = Add(p.head, move_vector),
        !.right_wing_tip = Add(p.right_wing_tip, move_vector),
        !.center = _get_center_from_vertices(moved),
        !.trace = Append(p.trace, [op |-> "translate_by", v |-> move_vector, angle |-> Zero])])
translate_by(p, move_vector) ==
    TranslatedWith(p, move_vector, TranslatedTo(p.vertices, move_vector, Len(p.vertices)))

RECURSIVE RotatedTo(_, _, _, _)
\* The first n vertices after
\* `vertex.position = rotation_matrix.mul_vec3(vertex.position - self.center) + self.center`.
RotatedTo(vertices, rotation_matrix, center, n) ==
    IF n = 0 THEN << >>
    ELSE Append(RotatedTo(vertices, rotation_matrix, center, n - 1),
                Add(MulVec3(rotation_matrix, Sub(vertices[n], center)), center))

\* A marker point turned about the center.
Turned(rotation_matrix, point, center) ==
    Add(MulVec3(rotation_matrix, Sub(point, center)), center)
RotatedWith(p, axis, angle, rotation_matrix, turned) ==
    WithCamera([p EXCEPT
        !.vertices = turned,
        !.head = Turned(rotation_matrix, p.head, p.center),
        !.right_wing_tip = Turned(rotation_matrix, p.right_wing_tip, p.center),
        !.center = _get_center_from_vertices(turned),
        !.trace = Append(p.trace, [op |-> "rotate_by_axis_angle", v |-> axis, angle |-> angle])])
RotatedBy(p, axis, angle, rotation_matrix) ==
    RotatedWith(p, axis, angle, rotation_matrix,
                RotatedTo(p.vertices, rotation_matrix, p.center, Len(p.vertices)))

\* rotate_by_axis_angle leaving right_wing_tip where it was.
rotate_by_axis_angle_stale_tip(p, axis, angle) ==
    WithCamera([RotatedBy(p, axis, angle, Mat3FromAxisAngle(axis, angle))
                    EXCEPT !.right_wing_tip = p.right_wing_tip])

rotate_by_axis_angle(p, axis, angle) ==
    RotatedBy(p, axis, angle, Mat3FromAxisAngle(axis, angle))

\* rotate_by with the three axes taken from the plane as the call found it.
rotate_by_frozen_axes(p, rotate_vector) ==
    The({ rotate_by_axis_angle(yawed, right(p), rotate_vector.z) :
              yawed \in { rotate_by_axis_angle(rolled, up(p), rotate_vector.y) :
                  rolled \in { rotate_by_axis_angle(p, forward(p), rotate_vector.x) } } })

\* Roll about the current forward, then yaw about the up of the rolled plane,
\* then pitch about the right of the rolled and yawed plane.
rotate_by(p, rotate_vector) ==
    The({ rotate_by_axis_angle(yawed, right(yawed), rotate_vector.z) :
              yawed \in { rotate_by_axis_angle(rolled, up(rolled), rotate_vector.y) :
                  rolled \in { rotate_by_axis_angle(p, forward(p), rotate_vector.x) } } })

(* ---------------------------------------------------------- aerodynamics *)

\* One triangle's force: i, j, k are its corners relative to center.
\* normalize() of a zero cross product is NaN, and so is everything computed
\* from it.
ForceAt(normal, area, speed) == Scale(normal, FMul(FMul(speed, speed), area))
ForceAlong(normal, area, velocity) ==
    ForceAt(normal, area, Length(Sub(velocity, Scale(normal, Dot(velocity, normal)))))
ForceOn(side1, side2, velocity) ==
    ForceAlong(Normalize(Cross(side1, side2)), Length(Scale(Cross(side1, side2), FHalf)),
               velocity)
TriangleForce(i, j, k, velocity) == ForceOn(Sub(i, j), Sub(j, k), velocity)

RECURSIVE ForceTo(_, _)
\* res_force after the first t chunks of indices.chunks_exact(3).
ForceTo(p, t) ==
    IF t = 0 THEN ZERO
    ELSE Add(ForceTo(p, t - 1),
             TriangleForce(Sub(p.vertices[p.indices[3 * t - 2] + 1], p.center),
                           Sub(p.vertices[p.indices[3 * t - 1] + 1], p.center),
                           Sub(p.vertices[p.indices[3 * t] + 1], p.center),
                           p.velocity))

\* res_torque is accumulated by the code but not returned: the torque is Vec3::ZERO.
get_aerodynamic_force_and_torque(p) ==
    [force |-> Scale(ForceTo(p, Len(p.indices) \div 3), Dec(100)), torque |-> ZERO]

(* ------------------------------------------------------------- integrator *)

Floor == Dec(1000)
Ceiling == Dec(49000)
WrapBound == Dec(500000)
WrapDistance == Dec(1000000)
MaxSpeed == Dec(50000)
MaxAngularSpeed == Dec(5000)
Damping == Dec(990)

ZeroY(v) == [v EXCEPT !.y = Zero]

CeilingPolicy(p) ==
    IF FGe(p.center.y, Ceiling) /\ FGt(p.velocity.y, Zero)
    THEN [p EXCEPT !.velocity = ZeroY(p.velocity)] ELSE p

FloorPolicy(p) ==
    IF FLe(p.center.y, Floor) /\ FLt(p.velocity.y, Zero)
    THEN [p EXCEPT !.velocity = ZeroY(p.velocity)] ELSE p

\* The ceiling check alone.
GroundPolicy_no_floor(p) == CeilingPolicy(p)

GroundPolicy(p) == CeilingPolicy(FloorPolicy(p))

\* The four bound checks, in the code's order, each on the center as the
\* checks before it left it.
WrapXHigh(p) ==
    IF FGe(p.center.x, WrapBound) THEN translate_by(p, V(FNeg(WrapDistance), Zero, Zero)) ELSE p
WrapXLow(p) ==
    IF FLe(p.center.x, FNeg(WrapBound)) THEN translate_by(p, V(WrapDistance, Zero, Zero)) ELSE p
WrapZHigh(p) ==
    IF FGe(p.center.z, WrapBound) THEN translate_by(p, V(Zero, Zero, FNeg(WrapDistance))) ELSE p
WrapZLow(p) ==
    IF FLe(p.center.z, FNeg(WrapBound)) THEN translate_by(p, V(Zero, Zero, WrapDistance)) ELSE p
WrapPolicy(p) == WrapZLow(WrapZHigh(WrapXLow(WrapXHigh(p))))

\* velocity and angular_velocity after the two += of update.
Accelerated(p, dt, acceleration, angular_acceleration) ==
    [p EXCEPT !.acceleration = acceleration,
              !.angular_velocity = Add(p.angular_velocity, Scale(angular_acceleration, dt)),
              !.velocity = Add(p.velocity, Scale(acceleration, dt))]
IntegrateWith(p, dt, thrust, torque, wind, gravity, aero) ==
    Accelerated(p, dt, Add(Add(Add(aero.force, thrust), wind), gravity),
                Add(aero.torque, torque))
Integrate(p, dt, thrust, torque, wind, gravity) ==
    IntegrateWith(p, dt, thrust, torque, wind, gravity, get_aerodynamic_force_and_torque(p))

\* The velocity clamped component by component.
ClampPolicy(p) ==
    [p EXCEPT !.velocity = ClampLengthMax(p.velocity, MaxSpeed),
              !.angular_velocity = ClampLengthMax(p.angular_velocity, MaxAngularSpeed)]

Move(p, dt) ==
    The({ rotate_by(moved, Scale(moved.angular_velocity, dt)) :
              moved \in { translate_by(p, Scale(p.velocity, dt)) } })

Damp(p) == [p EXCEPT !.angular_velocity = Scale(p.angular_velocity, Damping)]

update(p, dt, thrust, torque, wind, gravity) ==
    The({ Damp(Move(clamped, dt)) :
              clamped \in { ClampPolicy(wrapped) :
                  wrapped \in { WrapPolicy(grounded) :
                      grounded \in { GroundPolicy(integrated) :
                          integrated \in { Integrate(p, dt, thrust, torque, wind, gravity) } } } } })

(* ------------------------------------------------------------ main loop *)

\* The constants of main: gravity = Vec3::Y * -0.5 and wind = Vec3::ZERO.
Gravity == V(Zero, Dec(-500), Zero)
Wind == ZERO

\* The thrust of one frame: forward() * 2 while W is down plus backward() * 0.5
\* while S is down.
ThrustBack(p, keys, thrust) ==
    IF "S" \in keys THEN Add(thrust, Scale(backward(p), FHalf)) ELSE thrust
Thrust(p, keys) ==
    ThrustBack(p, keys, IF "W" \in keys THEN Add(ZERO, Scale(forward(p), Dec(2000))) ELSE ZERO)

\* The torque of one frame: each key sets its component, the key tested
\* later overriding the one tested earlier.
Torque(keys) ==
    V(IF "D" \in keys THEN Dec(100) ELSE IF "A" \in keys THEN Dec(-100) ELSE Zero,
      IF "Right" \in keys THEN Dec(-100) ELSE IF "Left" \in keys THEN Dec(100) ELSE Zero,
      IF "Down" \in keys THEN Dec(-100) ELSE IF "Up" \in keys THEN Dec(100) ELSE Zero)

(* --------------------------------------------------------- state machine *)

VARIABLES
    head, center, right_wing_tip, velocity, angular_velocity, acceleration,
    vertices, indices, camera,  \* struct Plane (mesh.vertices, mesh.indices)
    trace,                      \* translate_by / rotate_by_axis_angle calls of the last operation
    pre,                        \* the plane as the last operation found it
    call,                       \* the last operation and its arguments
    steps                       \* operations performed

vars == << head, center, right_wing_tip, velocity, angular_velocity, acceleration,
           vertices, indices, camera, trace, pre, call, steps >>

\* Operations performed in one behaviour.
MaxSteps == 2

\* The meshes load_model may hand to Plane::new: a shape, its vertex
\* coordinates decimal literals given in thousandths, placed at an offset.
\* Dart:  nose (1,0,0), wing tip (0,0,1), two tail vertices; the mean is the
\*        origin and nose and wing tip are at right angles seen from it.
\* Wedge: nose, wing tip and one more vertex at the corner of the right angle:
\*        seen from the mean, nose and wing tip are not at right angles.
\* Split: Dart with one more index triple naming a vertex twice (zero area).
DartVertices == << << 1000, 0, 0 >>, << 0, 0, 1000 >>, << -500, 100, -500 >>, << -500, -100, -500 >> >>
Dart == [vertices |-> DartVertices, indices |-> << 2, 3, 0, 2, 3, 1 >>]
Wedge == [vertices |-> << << 1000, 0, 0 >>, << 0, 0, 1000 >>, << 0, 0, 0 >> >>, indices |-> << 0, 1, 2 >>]
Split == [vertices |-> DartVertices, indices |-> << 2, 3, 0, 2, 3, 1, 0, 0, 1 >>]
\* Inside the world box, on its +x bound, on its -x and +z bounds and at the
\* floor, and inside the box close to the +x bound and the ceiling.
Inside == << 0, 5000, 0 >>
Offsets == { Inside, << 500000, 5000, 0 >>, << -500000, 0, 500000 >>, << 480000, 48000, 0 >> }
Placed(shape, offset) ==
    [vertices |-> [i \in 1..Len(shape.vertices) |->
                      Vec(shape.vertices[i][1] + offset[1], shape.vertices[i][2] + offset[2],
                          shape.vertices[i][3] + offset[3])],
     indices |-> shape.indices]
Meshes == { Placed(Dart, o) : o \in Offsets } \cup { Placed(Wedge, Inside), Placed(Split, Inside) }

\* The arguments of one update call: dt, thrust, torque, wind, gravity.
Control(dt, thrust, torque, wind, gravity) ==
    [dt |-> dt, thrust |-> thrust, torque |-> torque, wind |-> wind, gravity |-> gravity]
\* A thrust of 2^67 (about 1.5e20): finite, its square beyond the f32 range.
HugeThrust == V(F(8388608, 44), Zero, Zero)
Controls ==
    { Control(FHalf, ZERO, ZERO, ZERO, ZERO),
      Control(FOne, ZERO, ZERO, ZERO, Vec(0, -5000, 0)),
      Control(FOne, Vec(0, 10000, 0), ZERO, ZERO, ZERO),
      Control(FOne, Vec(60000, 0, 0), Vec(3000, 4000, 3000), Vec(1000, 0, 0), Vec(0, -5000, 0)),
      Control(FOne, HugeThrust, ZERO, ZERO, ZERO) }
\* The keys held down during a frame, and the frame times.
KeySets == { {"W", "S", "Left", "Right", "Up", "A"}, {"Escape", "W"} }
FrameTimes == { Dec(16) }
MoveVectors == { Vec(0, 44000, 0) }
RotateVectors == { Vec(500, 500, 0) }

Self ==
    [head |-> head, center |-> center, right_wing_tip |-> right_wing_tip,
     velocity |-> velocity, angular_velocity |-> angular_velocity,
     acceleration |-> acceleration, vertices |-> vertices, indices |-> indices,
     camera |-> camera, trace |-> << >>]

Becomes(q) ==
    /\ head' = q.head
    /\ center' = q.center
    /\ right_wing_tip' = q.right_wing_tip
    /\ velocity' = q.velocity
    /\ angular_velocity' = q.angular_velocity
    /\ acceleration' = q.acceleration
    /\ vertices' = q.vertices
    /\ indices' = q.indices
    /\ camera' = q.camera
    /\ trace' = q.trace
    /\ pre' = Self
    /\ steps' = steps + 1

NoControl == Control(Zero, ZERO, ZERO, ZERO, ZERO)

\* The state is the plane q, no operation performed on it yet.
Starts(q) ==
    /\ head = q.head
    /\ center = q.center
    /\ right_wing_tip = q.right_wing_tip
    /\ velocity = q.velocity
    /\ angular_velocity = q.angular_velocity
    /\ acceleration = q.acceleration
    /\ vertices = q.vertices
    /\ indices = q.indices
    /\ camera = q.camera
    /\ trace = q.trace
    /\ pre = q
    /\ call = [op |-> "new", control |-> NoControl, v |-> ZERO]
    /\ steps = 0

Init == \E mesh \in Meshes : \E q \in { New(mesh) } : Starts(q)

\* One update call with any of the argument lists.
Update(c) ==
    /\ steps < MaxSteps
    /\ \E q \in { update(Self, c.dt, c.thrust, c.torque, c.wind, c.gravity) } : Becomes(q)
    /\ call' = [op |-> "update", control |-> c, v |-> ZERO]

\* One turn of main's loop: the update call with thrust and torque as the
\* keys held down set them.  With Escape down the loop is left before update
\* is called, and the plane stays as it is.
Frame(keys, dt) ==
    /\ steps < MaxSteps
    /\ "Escape" \notin keys
    /\ \E c \in { Control(dt, Thrust(Self, keys), Torque(keys), Wind, Gravity) } :
          /\ \E q \in { update(Self, c.dt, c.thrust, c.torque, c.wind, c.gravity) } : Becomes(q)
          /\ call' = [op |-> "update", control |-> c, v |-> ZERO]

TranslateBy(move_vector) ==
    /\ steps < MaxSteps
    /\ \E q \in { translate_by(Self, move_vector) } : Becomes(q)
    /\ call' = [op |-> "translate_by", control |-> NoControl, v |-> move_vector]

RotateBy(rotate_vector) ==
    /\ steps < MaxSteps
    /\ \E q \in { rotate_by(Self, rotate_vector) } : Becomes(q)
    /\ call' = [op |-> "rotate_by", control |-> NoControl, v |-> rotate_vector]

Next ==
    \/ \E c \in Controls : Update(c)
    \/ \E keys \in KeySets, dt \in FrameTimes : Frame(keys, dt)
    \/ \E move_vector \in MoveVectors : TranslateBy(move_vector)
    \/ \E rotate_vector \in RotateVectors : RotateBy(rotate_vector)

Spec == Init /\ [][Next]_vars

\* A plane built inside the world box, and update after update on it: calls
\* with any of the argument lists, and turns of main's loop.
InitFlight ==
    /\ Init
    /\ FLt(FAbs(center.x), WrapBound) /\ FLt(FAbs(center.z), WrapBound)
    /\ FGe(center.y, Floor) /\ FLe(center.y, Ceiling)
NextFlight ==
    \/ \E c \in Controls : Update(c)
    \/ \E keys \in KeySets, dt \in FrameTimes : Frame(keys, dt)
SpecFlight == InitFlight /\ [][NextFlight]_vars

(* ----------------------------------------------------- common vocabulary *)

\* Two numbers (vectors) that agree within the tolerance.
Tolerance == Dec(1)
Near(a, b) == FLe(FAbs(FSub(a, b)), Tolerance)
NearV(a, b) == Near(a.x, b.x) /\ Near(a.y, b.y) /\ Near(a.z, b.z)

\* vertices, head, center, right_wing_tip: the points a rigid transform moves.
Points(p) == p.vertices \o << p.head, p.center, p.right_wing_tip >>
FinitePoints(p) == \A i \in 1..Len(Points(p)) : IsFiniteV(Points(p)[i])
FiniteTrace == \A i \in 1..Len(trace) : IsFiniteV(trace[i].v)
Distance(a, b) == Length(Sub(a, b))

RECURSIVE TranslationTo(_, _)
\* The sum of the move vectors of the first n calls of a trace that are
\* translate_by calls.
TranslationTo(t, n) ==
    IF n = 0 THEN ZERO
    ELSE Add(TranslationTo(t, n - 1), IF t[n].op = "translate_by" THEN t[n].v ELSE ZERO)

IsUpdate == call.op = "update"
Stationary(p) == p.velocity = ZERO /\ p.angular_velocity = ZERO
ZeroControl(c) == c.thrust = ZERO /\ c.torque = ZERO /\ c.wind = ZERO /\ c.gravity = ZERO
InBounds(p) ==
    /\ FLt(FAbs(p.center.x), WrapBound)
    /\ FLt(FAbs(p.center.z), WrapBound)
    /\ FGe(p.center.y, Floor)
    /\ FLe(p.center.y, Ceiling)

(* ------------------------------------------------------------------- C1 *)

Orthonormal(p) ==
    LET f == forward(p)
        r == right(p)
        u == up(p)
    IN  /\ Near(Length(f), FOne) /\ Near(Length(r), FOne) /\ Near(Length(u), FOne)
        /\ Near(Dot(f, r), Zero) /\ Near(Dot(f, u), Zero) /\ Near(Dot(r, u), Zero)

\* C1: in every state, from construction on, forward(), right() and up() are
\* of unit length and mutually orthogonal (within the tolerance).
C1_BasisOrthonormal == Orthonormal(Self)

(* ------------------------------------------------------------------- C3 *)

\* C3: in every state, from construction on, the camera is at
\* center + 2 up - 2 forward, looks at center + 3 forward, and has up = up().
C3_CameraAttached == camera = _get_camera_vectors(Self)

(* ------------------------------------------------------------------- C8 *)

RECURSIVE ProperTo(_, _)
\* The index triples, of the first t chunks, of the triangles whose
\* side1.cross(side2) is not the zero vector.
ProperTo(p, t) ==
    IF t = 0 THEN << >>
    ELSE LET i == Sub(p.vertices[p.indices[3 * t - 2] + 1], p.center)
             j == Sub(p.vertices[p.indices[3 * t - 1] + 1], p.center)
             k == Sub(p.vertices[p.indices[3 * t] + 1], p.center)
             flat == Cross(Sub(i, j), Sub(j, k)) = ZERO
         IN  ProperTo(p, t - 1) \o
             (IF flat THEN << >>
              ELSE << p.indices[3 * t - 2], p.indices[3 * t - 1], p.indices[3 * t] >>)
WithoutFlatTriangles(p) == [p EXCEPT !.indices = ProperTo(p, Len(p.indices) \div 3)]

\* C8: a zero-area triangle contributes nothing: the force is finite and is
\* the force of the mesh without that triangle, and after update neither
\* acceleration, velocity, center nor a vertex position is NaN.
C8_FlatTriangleIgnored ==
    /\ FinitePoints(Self) /\ IsFiniteV(velocity) =>
          LET f == get_aerodynamic_force_and_torque(Self).force
          IN  ~IsNaNV(f) /\ f = get_aerodynamic_force_and_torque(WithoutFlatTriangles(Self)).force
    /\ IsUpdate /\ FinitePoints(pre) /\ IsFiniteV(pre.velocity) =>
          ~IsNaNV(acceleration) /\ ~IsNaNV(velocity) /\ \A i \in 1..Len(Points(Self)) : ~IsNaNV(Points(Self)[i])

(* ------------------------------------------------------------------- C4 *)

\* C4: an update with zero thrust, torque, wind and gravity of a plane with
\* zero velocity and angular velocity (here: one inside the world bounds)
\* leaves center, head, right_wing_tip and the vertices where they were
\* (within the tolerance) and velocity and angular_velocity zero.
C4_ZeroInputStability ==
    IsUpdate /\ ZeroControl(call.control) /\ Stationary(pre) /\ InBounds(pre) =>
        /\ \A i \in 1..Len(Points(Self)) : NearV(Points(Self)[i], Points(pre)[i])
        /\ velocity = pre.velocity
        /\ angular_velocity = pre.angular_velocity

(* ------------------------------------------------------------------- C5 *)

Wraps(v) == \E i \in 1..Len(trace) : trace[i].op = "translate_by" /\ trace[i].v = v

\* C5: an update that starts with center.x >= 500 wraps by -1000 on x and no
\* other way on x, so that center.x ends at the old center.x - 1000 +
\* velocity.x * dt; with +1000 for center.x <= -500; the same on z.  (Stated
\* for the steps that leave center finite.)
C5_WrapOnce ==
    IsUpdate /\ FinitePoints(pre) /\ FinitePoints(Self) /\ IsFiniteV(velocity) =>
        LET step == Scale(velocity, call.control.dt)
        IN  /\ FGe(pre.center.x, WrapBound) =>
                  /\ ~Wraps(V(WrapDistance, Zero, Zero))
                  /\ Near(center.x, FAdd(FSub(pre.center.x, WrapDistance), step.x))
            /\ FLe(pre.center.x, FNeg(WrapBound)) =>
                  /\ ~Wraps(V(FNeg(WrapDistance), Zero, Zero))
                  /\ Near(center.x, FAdd(FAdd(pre.center.x, WrapDistance), step.x))
            /\ FGe(pre.center.z, WrapBound) =>
                  /\ ~Wraps(V(Zero, Zero, WrapDistance))
                  /\ Near(center.z, FAdd(FSub(pre.center.z, WrapDistance), step.z))
            /\ FLe(pre.center.z, FNeg(WrapBound)) =>
                  /\ ~Wraps(V(Zero, Zero, FNeg(WrapDistance)))
                  /\ Near(center.z, FAdd(FAdd(pre.center.z, WrapDistance), step.z))

(* ------------------------------------------------------------------- C2 *)

\* C2: an operation whose translate_by and rotate_by_axis_angle calls all had
\* finite arguments moves vertices, head, right_wing_tip and center as one
\* rigid body: every pairwise distance is kept (within the tolerance), head
\* and right_wing_tip are still the vertices they were, and the recomputed
\* center is (within the tolerance) the old center moved by the translations
\* and left in place by the rotations.
C2_RigidTransform ==
    call.op # "new" /\ FinitePoints(pre) /\ FiniteTrace =>
        LET P == Points(Self)
            Q == Points(pre)
        IN  /\ FinitePoints(Self)
            /\ \A i \in 1..Len(P) : \A j \in (i + 1)..Len(P) :
                  Near(Distance(P[i], P[j]), Distance(Q[i], Q[j]))
            /\ \E i \in 1..Len(vertices) : pre.vertices[i] = pre.head
            /\ \E i \in 1..Len(vertices) : pre.vertices[i] = pre.right_wing_tip
            /\ \A i \in 1..Len(vertices) :
                  /\ pre.vertices[i] = pre.head => vertices[i] = head
                  /\ pre.vertices[i] = pre.right_wing_tip => vertices[i] = right_wing_tip
            /\ NearV(center, Add(pre.center, TranslationTo(trace, Len(trace))))

\* An update has wrapped, moved and turned a finite plane.
C2_Witness ==
    /\ IsUpdate /\ FinitePoints(pre) /\ FiniteTrace /\ FinitePoints(Self)
    /\ Wraps(V(FNeg(WrapDistance), Zero, Zero))
    /\ \E i \in 1..Len(trace) : trace[i].op = "rotate_by_axis_angle" /\ trace[i].angle # Zero
    /\ \A i \in 1..Len(vertices) : ~NearV(vertices[i], pre.vertices[i])
    /\ FGt(Distance(head, right_wing_tip), FOne)

(* ------------------------------------------------------------------- C6 *)

\* The plane with velocity and angular_velocity as update's two += leave them.
Integrated == Integrate(pre, call.control.dt, call.control.thrust, call.control.torque,
                        call.control.wind, call.control.gravity)
AtFloorFalling == IsUpdate /\ FLe(pre.center.y, Floor) /\ FLt(pre.velocity.y, Zero)

\* C6 as stated: an update that starts with center.y <= 1 and velocity.y = -5
\* ends with velocity.y = 0.
C6_FloorAlwaysStops ==
    AtFloorFalling /\ pre.velocity.y = Dec(-5000) => velocity.y = Zero

\* C6 as amended: an update that starts with center.y <= 1 and a negative
\* velocity.y (-5, say), and whose velocity.y is still negative after
\* acceleration * dt is added, ends with velocity.y = 0.
C6_FloorStopsDescent ==
    AtFloorFalling /\ FLt(Integrated.velocity.y, Zero) => velocity.y = Zero

\* The floor has stopped a descent of -5 while the plane kept moving and turning.
C6_Witness ==
    /\ AtFloorFalling /\ pre.velocity.y = Dec(-5000)
    /\ FLt(Integrated.velocity.y, Zero)
    /\ velocity.y = Zero /\ velocity # ZERO
    /\ angular_velocity # ZERO

(* ------------------------------------------------------------------- C7 *)

SameDirection(a, b) == NearV(Normalize(a), Normalize(b))
TooFast(v) == FGt(Length(v), MaxSpeed)
\* The velocity as the floor / ceiling policy leaves it.
Grounded == GroundPolicy(Integrated)

\* C7: when velocity + acceleration * dt is longer than 50, the velocity
\* after the update is no longer than 50 (within the tolerance) and has the
\* direction of velocity + acceleration * dt; and angular_velocity is no
\* longer than 5 after every update.
C7_ClampKeepsIntegratedDirection ==
    IsUpdate =>
        /\ FLe(Length(angular_velocity), MaxAngularSpeed)
        /\ TooFast(Integrated.velocity) =>
              /\ FLe(Length(velocity), FAdd(MaxSpeed, Tolerance))
              /\ SameDirection(velocity, Integrated.velocity)

(* ------------------------------------------------------------------- C9 *)

\* The rotate_by_axis_angle calls of the last operation, in call order.
Rotations ==
    LET turns(t) == t.op = "rotate_by_axis_angle" IN SelectSeq(trace, turns)
\* The angular velocity of an update after the clamp.
ClampedSpin == ClampLengthMax(Integrated.angular_velocity, MaxAngularSpeed)
\* The plane as the last operation handed it to rotate_by: for update, the
\* integrated, floored, wrapped, clamped and moved plane.
BeforeTurn ==
    IF IsUpdate
    THEN The({ translate_by(clamped, Scale(clamped.velocity, call.control.dt)) :
                   clamped \in { ClampPolicy(wrapped) :
                       wrapped \in { WrapPolicy(grounded) : grounded \in {Grounded} } } })
    ELSE pre
\* The vector of angles rotate_by was given.
Euler == IF IsUpdate THEN Scale(ClampedSpin, call.control.dt) ELSE call.v
Turn(axis, angle) == [op |-> "rotate_by_axis_angle", v |-> axis, angle |-> angle]

\* C9: rotate_by(e) makes exactly three rotate_by_axis_angle calls: by e.x
\* about forward(), then by e.y about up() of the plane the first rotation
\* left, then by e.z about right() of the plane the second rotation left, and
\* the plane ends where these three rotations put it; in update e is the
\* clamped angular velocity times dt, and angular_velocity ends as the clamped
\* angular velocity times 0.99.
C9_RotateByOrder ==
    call.op \in {"rotate_by", "update"} =>
        \E e \in {Euler}, p0 \in {BeforeTurn} :
        \E p1 \in {rotate_by_axis_angle(p0, forward(p0), e.x)} :
        \E p2 \in {rotate_by_axis_angle(p1, up(p1), e.y)} :
        \E p3 \in {rotate_by_axis_angle(p2, right(p2), e.z)} :
            /\ Rotations = << Turn(forward(p0), e.x), Turn(up(p1), e.y), Turn(right(p2), e.z) >>
            /\ vertices = p3.vertices
            /\ head = p3.head
            /\ right_wing_tip = p3.right_wing_tip
            /\ center = p3.center
            /\ IsUpdate => angular_velocity = Scale(ClampedSpin, Damping)

\* An update has clamped an angular velocity with three non-zero components,
\* and has turned the plane about three axes, the second of them not the up()
\* the plane had before the first rotation.
C9_Witness ==
    /\ IsUpdate /\ FinitePoints(pre) /\ FinitePoints(Self)
    /\ FGt(Length(Integrated.angular_velocity), MaxAngularSpeed)
    /\ Len(Rotations) = 3
    /\ \A i \in 1..3 : Rotations[i].angle # Zero
    /\ ~NearV(Rotations[2].v, up(BeforeTurn))
    /\ ~NearV(Rotations[3].v, right(BeforeTurn))
    /\ angular_velocity # ClampedSpin

(* ------------------------------------------------------------------ C10 *)

\* The longest dt of the inputs, and the longest move of one update.
LongestDt ==
    LET times == {c.dt : c \in Controls} \cup FrameTimes
    IN  CHOOSE d \in times : \A t \in times : FLe(t, d)
Reach == FMul(MaxSpeed, LongestDt)

\* C10: under updates alone, a plane that starts inside the world box keeps
\* a center (within the tolerance) with |x| <= 500 + 50 D, |z| <= 500 + 50 D
\* and 1 - 50 D <= y <= 49 + 50 D, D the longest dt; an update that starts
\* with center.y <= 1 does not lower center.y, and one that starts with
\* center.y >= 49 does not raise it.
C10_WorldBoxConfinement ==
    /\ FLe(FAbs(center.x), FAdd(FAdd(WrapBound, Reach), Tolerance))
    /\ FLe(FAbs(center.z), FAdd(FAdd(WrapBound, Reach), Tolerance))
    /\ FGe(center.y, FSub(FSub(Floor, Reach), Tolerance))
    /\ FLe(center.y, FAdd(FAdd(Ceiling, Reach), Tolerance))
    /\ IsUpdate /\ FLe(pre.center.y, Floor) =>
          FGe(center.y, FSub(pre.center.y, Tolerance))
    /\ IsUpdate /\ FGe(pre.center.y, Ceiling) =>
          FLe(center.y, FAdd(pre.center.y, Tolerance))

====
